---- MODULE Spec2Model ----
(***************************************************************************)
(* The loan calculator of src/app.py (page_calculator, lines 423-468).    *)
(*                                                                         *)
(* A press of "Generate" reads the five widgets (Amount, Rate %, Months,   *)
(* Start, Method), runs one of three loops that append one row per period  *)
(* to `data`, and then shows and exports the rows.                         *)
(*                                                                         *)
(* Python computes Payment, Principal, Interest and Balance in binary      *)
(* floating point.  The model computes them in exact rational arithmetic   *)
(* (a number is a pair <<n, d>> in lowest terms, d > 0), so every equality *)
(* below is the exact-arithmetic one; the floating-point schedule differs  *)
(* from it by rounding residue only.                                       *)
(***************************************************************************)
EXTENDS Integers, Sequences, FiniteSets

\* ------------------------------------------------------------------ bounds
\* Largest number of months offered by the Months widget in the model.
MaxMonths == 3
\* Largest amount offered by the Amount widget, in hundreds.
MaxAmt == 3
\* Number of case numbers the crm_cases table can hold in the model.
MaxCases == 2

\* -------------------------------------------------------- exact arithmetic
Abs(x) == IF x < 0 THEN -x ELSE x

RECURSIVE GCD(_, _)
GCD(a, b) == IF b = 0 THEN a ELSE GCD(b, a % b)

\* The rational n/d (d # 0) in lowest terms with a positive denominator.
Norm(n, d) ==
    LET g == GCD(Abs(n), Abs(d))
        s == IF d < 0 THEN -1 ELSE 1
    IN  <<(s * n) \div g, (s * d) \div g>>

Rat(k) == <<k, 1>>
Zero == Rat(0)
One == Rat(1)

LCM(a, b) == (a \div GCD(a, b)) * b

\* a + b, python's float `+`
RAdd(a, b) ==
    LET l == LCM(a[2], b[2])
    IN  Norm(a[1] * (l \div a[2]) + b[1] * (l \div b[2]), l)

\* a - b, python's float `-`
RSub(a, b) ==
    LET l == LCM(a[2], b[2])
    IN  Norm(a[1] * (l \div a[2]) - b[1] * (l \div b[2]), l)

\* a * b, python's float `*` (cross-reduced before multiplying)
RMul(a, b) ==
    LET g1 == GCD(Abs(a[1]), b[2])
        g2 == GCD(Abs(b[1]), a[2])
    IN  Norm((a[1] \div g1) * (b[1] \div g2), (a[2] \div g2) * (b[2] \div g1))

\* a / b for b # 0, python's `/`; b = 0 is ZeroDivisionError, see the callers
RDiv(a, b) == RMul(a, Norm(b[2], b[1]))

\* a < b
RLt(a, b) ==
    LET l == LCM(a[2], b[2])
    IN  a[1] * (l \div a[2]) < b[1] * (l \div b[2])

\* a ** k for an integer k (a # 0 when k < 0)
RECURSIVE RPow(_, _)
RPow(a, k) ==
    IF k = 0 THEN One
    ELSE IF k < 0 THEN RDiv(One, RPow(a, -k))
    ELSE RMul(a, RPow(a, k - 1))

\* python's max(0, bal)
Clamp(bal) == IF RLt(Zero, bal) THEN bal ELSE Zero

\* ------------------------------------------------------------------ dates
\* A date is <<year, month, day>>.
IsLeap(y) == (y % 4 = 0 /\ y % 100 # 0) \/ y % 400 = 0

DaysInMonth(y, m) ==
    IF m = 2 THEN (IF IsLeap(y) THEN 29 ELSE 28)
    ELSE IF m \in {4, 6, 9, 11} THEN 30
    ELSE 31

Min(a, b) == IF a < b THEN a ELSE b

\* curr + relativedelta(months=1): the next month, the day kept when the
\* month has it and otherwise the month's last day.
AddMonth(dt) ==
    LET y == IF dt[2] = 12 THEN dt[1] + 1 ELSE dt[1]
        m == IF dt[2] = 12 THEN 1 ELSE dt[2] + 1
    IN  <<y, m, Min(dt[3], DaysInMonth(y, m))>>

\* ------------------------------------------------------------- the widgets
\* The three number_input calls pass 100000, 12.0 and 12 as their second
\* positional argument.  The model takes each widget as a free numeric input,
\* so that the computation of lines 432-463 is exercised over small, zero
\* and negative values as well.
Methods == {"Annuity", "Differentiated", "Interest Only"}

\* Values of the Amount widget (an integer).
Amounts == {-100} \cup {100 * k : k \in 0..MaxAmt}

\* Values of the Rate % widget, in percent a year.
Rates == {-120, 0, 120, 600, 800}

\* Values of the Months widget (an integer).
Months == -1..MaxMonths

\* Values of the Start widget.
StartDates ==
    {dt \in {2023, 2024} \X {1, 2, 12} \X {15, 28, 29, 30, 31} :
        dt[3] <= DaysInMonth(dt[1], dt[2])}

\* --------------------------------------------------- the pieces of the loops
\* r_mo = rate/100/12
MonthlyRate(rate) == Norm(rate, 100 * 12)

\* ((1+r_mo)**mths)-1, the divisor of the annuity formula
AnnuityDivisor(r, n) == RSub(RPow(RAdd(One, r), n), One)

\* The mutants of AnnuityPmt: the growth factor left out of the numerator,
\* and the zero-rate branch returning the whole amount.
AnnuityPmtNoGrowth(a, r, n) ==
    IF RLt(Zero, r)
    THEN RDiv(RMul(Rat(a), r), AnnuityDivisor(r, n))
    ELSE RDiv(Rat(a), Rat(n))

AnnuityPmtZeroWhole(a, r, n) ==
    IF RLt(Zero, r)
    THEN RDiv(RMul(RMul(Rat(a), r), RPow(RAdd(One, r), n)), AnnuityDivisor(r, n))
    ELSE Rat(a)

\* pmt = amt * r_mo * ((1+r_mo)**mths)/(((1+r_mo)**mths)-1) if r_mo>0 else amt/mths
AnnuityPmt(a, r, n) ==
    IF RLt(Zero, r)
    THEN RDiv(RMul(RMul(Rat(a), r), RPow(RAdd(One, r), n)), AnnuityDivisor(r, n))
    ELSE RDiv(Rat(a), Rat(n))

\* The division that computes pmt raises ZeroDivisionError.
AnnuityRaises(r, n) == IF RLt(Zero, r) THEN AnnuityDivisor(r, n) = Zero ELSE n = 0

\* The mutant of PrincFix: floor division, amt//mths.
PrincFixFloor(a, n) == Rat(a \div n)

\* princ_fix = amt/mths
PrincFix(a, n) == RDiv(Rat(a), Rat(n))

\* amt/mths raises ZeroDivisionError.
PrincFixRaises(n) == n = 0

\* The mutant of Interest: the yearly rate applied every month.
InterestYearly(b, r) == RMul(b, RMul(r, Rat(12)))

\* inte = bal * r_mo
Interest(b, r) == RMul(b, r)

\* The mutant of DiffPayment: the interest left out of the payment.
DiffPaymentNoInterest(p, inte) == p

\* pmt = princ_fix + inte
DiffPayment(p, inte) == RAdd(p, inte)

\* The mutant of InterestOnlyPrinc: the principal repaid in the first period.
InterestOnlyPrincFirst(b, k, n) == IF k = 1 THEN b ELSE Zero

\* princ = bal if i==mths else 0
InterestOnlyPrinc(b, k, n) == IF k = n THEN b ELSE Zero

\* The mutant of ReduceBalance: the balance is not updated.
ReduceBalanceKept(b, p) == b

\* bal -= princ
ReduceBalance(b, p) == RSub(b, p)

\* The mutant of LoopRange: range(1, int(mths)).
LoopRangeShort(n) == 1..(n - 1)

\* range(1, int(mths)+1)
LoopRange(n) == 1..n

\* One appended row.
Row(k, dt, pay, pr, inte, b) ==
    [Period |-> k, Date |-> dt, Payment |-> pay, Principal |-> pr,
     Interest |-> inte, Balance |-> Clamp(b)]

\* ------------------------------------------------------------------ state
VARIABLES
    amt,        \* Amount widget
    rate,       \* Rate % widget
    mths,       \* Months widget
    start,      \* Start widget
    method,     \* Method radio
    pc,         \* "form", "loop", "done" or "error"
    data,       \* the rows appended so far
    bal,        \* running balance
    r_mo,       \* monthly rate
    curr,       \* running date
    pmt,        \* the annuity payment
    princ_fix,  \* the differentiated principal instalment
    i,          \* the loop variable: the period about to be computed
    shown,      \* the rows displayed and offered as CSV (<<>> before that)
    displayed,  \* TRUE once st.dataframe has run
    err         \* the exception that ended the run, "" when none

\* The CRM page (page_crm) and the crm_cases table behind it.
VARIABLES
    table,      \* the rows of crm_cases in the database
    df,         \* st.session_state.df, the rows the page edits
    arg,        \* the dataframe passed to the running update_table_sql
    before,     \* the rows crm_cases held when update_table_sql was called
    sqlpc       \* where the page is: "off", "start", "idle", "insert raised",
                \* or in update_table_sql: "delete", "append", "returned"
                \* (it returned), "raised" (it raised)

calcvars == <<amt, rate, mths, start, method, pc, data, bal, r_mo, curr, pmt,
              princ_fix, i, shown, displayed, err>>

sqlvars == <<table, df, arg, before, sqlpc>>

vars == <<calcvars, sqlvars>>

inputs == <<amt, rate, mths, start, method>>

Init ==
    /\ amt \in Amounts
    /\ rate \in Rates
    /\ mths \in Months
    /\ start \in StartDates
    /\ method \in Methods
    /\ pc = "form"
    /\ data = <<>>
    /\ bal = Zero
    /\ r_mo = Zero
    /\ curr = start
    /\ pmt = Zero
    /\ princ_fix = Zero
    /\ i = 0
    /\ shown = <<>>
    /\ displayed = FALSE
    /\ err = ""
    /\ table = {}
    /\ df = {}
    /\ arg = {}
    /\ before = {}
    /\ sqlpc = "off"

\* if st.button("Generate"): the set-up before the loop of the chosen method.
Generate ==
    /\ pc = "form"
    /\ data' = <<>>
    /\ bal' = Rat(amt)
    /\ r_mo' = MonthlyRate(rate)
    /\ curr' = start
    /\ LET raises ==
            \/ method = "Annuity" /\ AnnuityRaises(MonthlyRate(rate), mths)
            \/ method = "Differentiated" /\ PrincFixRaises(mths)
       IN  /\ pc' = IF raises THEN "error" ELSE "loop"
           /\ err' = IF raises THEN "ZeroDivisionError" ELSE ""
           /\ pmt' = IF method = "Annuity" /\ ~raises
                     THEN AnnuityPmt(amt, MonthlyRate(rate), mths) ELSE Zero
           /\ princ_fix' = IF method = "Differentiated" /\ ~raises
                           THEN PrincFix(amt, mths) ELSE Zero
    /\ i' = 1
    /\ UNCHANGED <<sqlvars, inputs, shown, displayed>>

\* One iteration of the Annuity loop.
AnnuityStep ==
    /\ pc = "loop" /\ method = "Annuity" /\ i \in LoopRange(mths)
    /\ LET inte == Interest(bal, r_mo)
           princ == RSub(pmt, inte)
       IN  /\ bal' = ReduceBalance(bal, princ)
           /\ curr' = AddMonth(curr)
           /\ data' = Append(data, Row(i, curr', pmt, princ, inte, bal'))
    /\ i' = i + 1
    /\ UNCHANGED <<sqlvars, inputs, pc, r_mo, pmt, princ_fix, shown, displayed, err>>

\* One iteration of the Differentiated loop.
DifferentiatedStep ==
    /\ pc = "loop" /\ method = "Differentiated" /\ i \in LoopRange(mths)
    /\ LET inte == Interest(bal, r_mo)
           pay == DiffPayment(princ_fix, inte)
       IN  /\ bal' = ReduceBalance(bal, princ_fix)
           /\ curr' = AddMonth(curr)
           /\ data' = Append(data, Row(i, curr', pay, princ_fix, inte, bal'))
    /\ i' = i + 1
    /\ UNCHANGED <<sqlvars, inputs, pc, r_mo, pmt, princ_fix, shown, displayed, err>>

\* One iteration of the Interest Only loop.
InterestOnlyStep ==
    /\ pc = "loop" /\ method = "Interest Only" /\ i \in LoopRange(mths)
    /\ LET inte == Interest(bal, r_mo)
           princ == InterestOnlyPrinc(bal, i, mths)
           pay == RAdd(princ, inte)
       IN  /\ bal' = ReduceBalance(bal, princ)
           /\ curr' = AddMonth(curr)
           /\ data' = Append(data, Row(i, curr', pay, princ, inte, bal'))
    /\ i' = i + 1
    /\ UNCHANGED <<sqlvars, inputs, pc, r_mo, pmt, princ_fix, shown, displayed, err>>

\* The loop is over: the rows are displayed and offered as CSV.
Display ==
    /\ pc = "loop" /\ i \notin LoopRange(mths)
    /\ shown' = data
    /\ displayed' = TRUE
    /\ pc' = "done"
    /\ UNCHANGED <<sqlvars, inputs, data, bal, r_mo, curr, pmt, princ_fix, i, err>>

Next ==
    \/ Generate
    \/ AnnuityStep
    \/ DifferentiatedStep
    \/ InterestOnlyStep
    \/ Display

Spec == Init /\ [][Next]_vars

\* ------------------------------------------------ the crm_cases table
CaseIds == 1..MaxCases

\* A row of crm_cases: its case number (the primary key) and its "done" cell.
CaseRows == [id : CaseIds, done : {"Yes", "No"}]

\* No two rows share a case number.
UniqueIds(rows) == \A a, b \in rows : a.id = b.id => a = b

\* The contents crm_cases can have.
Tables == {t \in SUBSET CaseRows : UniqueIds(t)}

\* load_data_sql(): the rows of the table, or an empty frame when the read
\* raises.
LoadDataSql(ok) == IF ok THEN table ELSE {}

\* The page is opened with some table in the database; the calculator is idle.
InitSql ==
    /\ amt = 0 /\ rate = 0 /\ mths = 0
    /\ start = <<2023, 1, 15>>
    /\ method = "Annuity"
    /\ pc = "form"
    /\ data = <<>>
    /\ bal = Zero
    /\ r_mo = Zero
    /\ curr = start
    /\ pmt = Zero
    /\ princ_fix = Zero
    /\ i = 0
    /\ shown = <<>>
    /\ displayed = FALSE
    /\ err = ""
    /\ table \in Tables
    /\ df = {}
    /\ arg = {}
    /\ before = {}
    /\ sqlpc = "start"

\* if 'df' not in st.session_state: st.session_state.df = load_data_sql()
LoadPage ==
    /\ sqlpc = "start"
    /\ \E ok \in BOOLEAN : df' = LoadDataSql(ok)
    /\ sqlpc' = "idle"
    /\ UNCHANGED <<calcvars, table, arg, before>>

\* "Create Case": save_new_case_sql appends one row with a random case
\* number (a number already in the table violates the primary key and the
\* insert raises), then the page reloads df.
CreateCase ==
    /\ sqlpc = "idle"
    /\ \E nid \in CaseIds :
        IF \E r \in table : r.id = nid
        THEN /\ sqlpc' = "insert raised"
             /\ UNCHANGED <<table, df>>
        ELSE /\ table' = table \cup {[id |-> nid, done |-> "No"]}
             /\ \E ok \in BOOLEAN : df' = IF ok THEN table' ELSE {}
             /\ sqlpc' = "idle"
    /\ UNCHANGED <<calcvars, arg, before>>

\* st.session_state.df.update(edited): a cell of a row of df is edited.
EditCell ==
    /\ sqlpc = "idle"
    /\ \E r \in df : \E d \in {"Yes", "No"} :
        /\ d # r.done
        /\ df' = (df \ {r}) \cup {[id |-> r.id, done |-> d]}
    /\ UNCHANGED <<calcvars, table, arg, before, sqlpc>>

\* "Save Edits to SQL": update_table_sql(st.session_state.df) is called; an
\* empty frame returns at once.
SaveEdits ==
    /\ sqlpc = "idle"
    /\ arg' = df
    /\ before' = table
    /\ sqlpc' = IF df = {} THEN "returned" ELSE "delete"
    /\ UNCHANGED <<calcvars, table, df>>

\* with engine.begin() as conn: DELETE FROM crm_cases, committed when the
\* block is left.
DeleteRows ==
    /\ sqlpc = "delete"
    /\ table' = {}
    /\ sqlpc' = "append"
    /\ UNCHANGED <<calcvars, df, arg, before>>

\* The DELETE raises (the connection is lost): its transaction is rolled back.
DeleteRaises ==
    /\ sqlpc = "delete"
    /\ sqlpc' = "raised"
    /\ UNCHANGED <<calcvars, table, df, arg, before>>

\* df.to_sql('crm_cases', engine, if_exists='append'), a transaction of its own.
AppendRows ==
    /\ sqlpc = "append"
    /\ table' = table \cup arg
    /\ sqlpc' = "returned"
    /\ UNCHANGED <<calcvars, df, arg, before>>

\* to_sql raises (the connection is lost, a value is rejected): its own
\* transaction is rolled back, the committed DELETE is not.
AppendRaises ==
    /\ sqlpc = "append"
    /\ sqlpc' = "raised"
    /\ UNCHANGED <<calcvars, table, df, arg, before>>

\* After the call: st.success(...); st.session_state.df = load_data_sql()
Reload ==
    /\ sqlpc = "returned"
    /\ \E ok \in BOOLEAN : df' = LoadDataSql(ok)
    /\ sqlpc' = "idle"
    /\ UNCHANGED <<calcvars, table, arg, before>>

\* An exception ends the script run; the page is drawn again on the next
\* interaction with st.session_state.df as it was.
Rerun ==
    /\ sqlpc \in {"raised", "insert raised"}
    /\ sqlpc' = "idle"
    /\ UNCHANGED <<calcvars, table, df, arg, before>>

NextSql ==
    \/ LoadPage
    \/ CreateCase
    \/ EditCell
    \/ SaveEdits
    \/ DeleteRows
    \/ DeleteRaises
    \/ AppendRows
    \/ AppendRaises
    \/ Reload
    \/ Rerun

SpecSql == InitSql /\ [][NextSql]_vars

\* ------------------------------------------------- what the claims speak of
\* The inputs the calculator is specified for.
Valid == mths >= 1 /\ amt >= 0 /\ rate >= 0

\* The sum of the Principal column over the first k rows of rows.
RECURSIVE SumPrincipal(_, _)
SumPrincipal(rows, k) ==
    IF k = 0 THEN Zero ELSE RAdd(SumPrincipal(rows, k - 1), rows[k].Principal)

\* The balance carried into period k: the amount less the principal repaid
\* in the periods before k.
Carried(rows, k) == RSub(Rat(amt), SumPrincipal(rows, k - 1))

\* dt advanced by k whole calendar months in one step: the day of dt kept
\* when the target month has it, else the last day of the target month.
AddMonths(dt, k) ==
    LET t == (dt[2] - 1) + k
        y == dt[1] + (t \div 12)
        m == (t % 12) + 1
    IN  <<y, m, Min(dt[3], DaysInMonth(y, m))>>

\* C1: for every valid input and each method the run does not fail, the
\* rows appended so far carry the periods 1, 2, 3, ... in order, and the
\* schedule displayed at the end has exactly mths rows.
C1_TermRowsInOrder ==
    Valid =>
        /\ pc # "error"
        /\ Len(data) <= mths
        /\ \A k \in 1..Len(data) : data[k].Period = k
        /\ pc = "done" => (shown = data /\ Len(shown) = mths)

C1_Witness ==
    /\ pc = "done" /\ Valid /\ Len(shown) = 3
    /\ <<shown[1].Period, shown[2].Period, shown[3].Period>> = <<1, 2, 3>>

\* C2: in every row of every method Payment = Principal + Interest, and
\* Interest is the balance carried into the period times rate/100/12.
C2_PaymentSplits ==
    \A k \in 1..Len(data) :
        /\ data[k].Payment = RAdd(data[k].Principal, data[k].Interest)
        /\ data[k].Interest = RMul(Carried(data, k), Norm(rate, 1200))

C2_Witness ==
    /\ Len(data) >= 2 /\ Valid /\ rate > 0 /\ amt > 0
    /\ RLt(Zero, data[2].Interest)
    /\ RLt(Zero, data[2].Principal)

\* C3: for every valid input the Balance column follows the recurrence
\* Balance[1] = amt - Principal[1], Balance[k] = Balance[k-1] - Principal[k];
\* the clamp at zero does not break it.
C3_BalanceRecurrence ==
    Valid =>
        \A k \in 1..Len(data) :
            data[k].Balance =
                RSub(IF k = 1 THEN Rat(amt) ELSE data[k - 1].Balance,
                     data[k].Principal)

C3_Witness ==
    /\ Valid /\ amt > 0 /\ pc = "done" /\ Len(data) >= 2
    /\ data[Len(data)].Balance = Zero
    /\ RLt(Zero, data[1].Balance)
    /\ RLt(data[1].Balance, Rat(amt))

\* C4: for every valid input and each method the last row of the finished
\* schedule has Balance 0, and the Principal column sums to the amount.
C4_FinalBalanceZero ==
    (Valid /\ pc = "done") =>
        /\ Len(shown) = mths
        /\ shown[mths].Balance = Zero
        /\ SumPrincipal(shown, mths) = Rat(amt)

C4_Witness ==
    /\ Valid /\ pc = "done" /\ amt > 0 /\ rate > 0 /\ mths >= 2
    /\ method = "Differentiated"
    /\ shown[mths].Balance = Zero

C6_DateIsStartPlusK ==
    Valid => \A k \in 1..Len(data) : data[k].Date = AddMonths(start, k)

\* C7: Annuity with a positive monthly rate and a positive amount: every
\* row's Payment is amt*r*(1+r)^n / ((1+r)^n - 1), Principal is positive in
\* every row, and from one row to the next Interest strictly decreases and
\* Principal strictly increases.
C7_AnnuityShape ==
    (method = "Annuity" /\ rate > 0 /\ amt > 0 /\ mths >= 1) =>
        LET r == Norm(rate, 1200)
            g == RPow(RAdd(One, r), mths)
        IN  /\ pc # "error"
            /\ \A k \in 1..Len(data) :
                /\ RMul(data[k].Payment, RSub(g, One)) = RMul(RMul(Rat(amt), r), g)
                /\ RLt(Zero, data[k].Principal)
            /\ \A k \in 1..(Len(data) - 1) :
                /\ RLt(data[k + 1].Interest, data[k].Interest)
                /\ RLt(data[k].Principal, data[k + 1].Principal)

C7_Witness ==
    /\ method = "Annuity" /\ rate > 0 /\ amt > 0 /\ pc = "done"
    /\ Len(data) = 3
    /\ data[1].Payment = data[3].Payment
    /\ RLt(data[3].Interest, data[2].Interest)

\* C8: Differentiated: Principal is amt/mths in every row, and with a
\* positive rate and a positive amount Payment strictly decreases from one
\* row to the next.
C8_DifferentiatedShape ==
    (method = "Differentiated" /\ mths >= 1) =>
        /\ pc # "error"
        /\ \A k \in 1..Len(data) :
            RMul(data[k].Principal, Rat(mths)) = Rat(amt)
        /\ (rate > 0 /\ amt > 0) =>
            \A k \in 1..(Len(data) - 1) :
                RLt(data[k + 1].Payment, data[k].Payment)

C8_Witness ==
    /\ method = "Differentiated" /\ rate > 0 /\ amt > 0 /\ pc = "done"
    /\ Len(data) = 3
    /\ RLt(data[3].Payment, data[2].Payment)
    /\ data[1].Principal = data[3].Principal

\* C9: Interest Only, for a non-negative amount: every row before the last
\* has Principal 0, Balance = amt and Payment = Interest = amt*r; the row of
\* period mths has Principal = amt, Payment = amt + amt*r and Balance 0.
C9_InterestOnlyShape ==
    (method = "Interest Only" /\ amt >= 0) =>
        LET ar == RMul(Rat(amt), Norm(rate, 1200))
        IN  \A k \in 1..Len(data) :
                /\ data[k].Interest = ar
                /\ data[k].Period < mths =>
                    /\ data[k].Principal = Zero
                    /\ data[k].Balance = Rat(amt)
                    /\ data[k].Payment = ar
                /\ data[k].Period = mths =>
                    /\ data[k].Principal = Rat(amt)
                    /\ data[k].Payment = RAdd(Rat(amt), ar)
                    /\ data[k].Balance = Zero

C9_Witness ==
    /\ method = "Interest Only" /\ amt > 0 /\ rate > 0 /\ pc = "done"
    /\ Len(data) = 3
    /\ data[2].Principal = Zero
    /\ data[3].Principal = Rat(amt)

\* C10: Annuity at rate 0 with mths >= 1: the run does not fail, every row
\* has Interest 0 and Principal = Payment = amt/mths, and the finished
\* schedule ends with Balance 0.
C10_AnnuityZeroRate ==
    (method = "Annuity" /\ rate = 0 /\ mths >= 1) =>
        /\ pc # "error"
        /\ pc # "form" => RMul(pmt, Rat(mths)) = Rat(amt)
        /\ \A k \in 1..Len(data) :
            /\ data[k].Interest = Zero
            /\ data[k].Principal = data[k].Payment
            /\ RMul(data[k].Principal, Rat(mths)) = Rat(amt)
        /\ pc = "done" => (Len(shown) = mths /\ shown[mths].Balance = Zero)

C10_Witness ==
    /\ method = "Annuity" /\ rate = 0 /\ amt = 100 /\ mths = 3 /\ pc = "done"
    /\ shown[3].Principal = <<100, 3>>
    /\ shown[3].Balance = Zero

\* C11 (as claimed): when a call of update_table_sql has ended, by returning
\* or by raising, crm_cases holds exactly the rows of the dataframe passed
\* in or exactly the rows it held before the call.
C11_UpdateAllOrNothing ==
    sqlpc \in {"returned", "raised"} => (table = arg \/ table = before)

====
